---- MODULE Spec2Model ----
(***************************************************************************)
(* dmgmt::StaticDataManager (include/static_data_manager.hpp): callbacks,  *)
(* dependencies and undo/redo over user-owned fields.                      *)
(*                                                                         *)
(* A public operation - set, call, undo, redo, registration - is one       *)
(* action; the cascade it starts (_update) advances one while-iteration    *)
(* per step, and while a cascade is in progress (pc = "update") no other   *)
(* operation can start: the manager is single-threaded and synchronous.    *)
(***************************************************************************)
EXTENDS Integers, Sequences, FiniteSets, TLC

\* ------------------------------------------------------------------ bounds
\* Largest value a field is set to (fields start at InitValue).
MaxValue == 1
\* Mutations (set/call) per run of the history specification.
MaxMutations == 2
\* Edges in the dependency registry, callbacks in the callback registry and
\* mutations per run of the cascade specifications.
MaxDeps == 3
MaxCallbacks == 3
MaxCascadeSets == 1
\* Snapshots in a SnapshotGroup that is used on its own.
MaxSnapshots == 3
\* Sets in progress one inside the other, made by callbacks, that the stack
\* of the program has room for.
MaxNesting == 2
\* The bucket count of an unordered_set that holds its first key.  It is the
\* library's choice, as is the way it grows; the smallest in use is taken, so
\* that the set grows, and rehashes, with the few keys of the model.
BucketCount == 2

\* ------------------------------------------------------------ identity keys
\* Signature: (runtime type, address) of a field.
Sig(t, a) == [type |-> t, address |-> a]

A == Sig("int", 1)
B == Sig("int", 2)
C == Sig("int", 3)
D == Sig("int", 4)
E == Sig("int", 5)
F == Sig("int", 6)
G == Sig("int", 7)

Fields == {A, B, C, D, E, F, G}
HistFields == {A, B}

\* The aggregate S the fields A and B are the members a and b of: it starts at
\* the address of its first member and has a type of its own.
S1 == Sig("S", 1)
Aggregates == {S1}
Members(agg) == << A, B >>

\* Everything that can be a key of the registries.
Keys == Fields \cup Aggregates
Values == 0..MaxValue
InitValue == 0

\* A comparison of keys that looks at the address only
SigEqAddress(s1, s2) == s1.address = s2.address

\* Signature::operator==(const Signature &) and operator==(const El_t &)
SigEq(s1, s2) == s1.type = s2.type /\ s1.address = s2.address

\* ---------------------------------------------------------------- snapshots
\* Snapshot: identity of a field and a copy of its value at capture time.
Snap(sig, v) == [sig |-> sig, value |-> v]

\* SnapshotGroup built from one element: a group holding its snapshot.
Group(sig, v) == << Snap(sig, v) >>

Top(stack) == stack[Len(stack)]
Pop(stack) == SubSeq(stack, 1, Len(stack) - 1)
Push(stack, g) == Append(stack, g)

\* SnapshotData::operator==(const Val_t &): type, address and value match.
SnapEqElement(snap, sig, v) ==
    /\ snap.sig.type = sig.type
    /\ snap.sig.address = sig.address
    /\ snap.value = v

\* SnapshotGroup != element: the group's last snapshot does not match the
\* field's identity and current value.
GroupNeqElement(g, sig, v) == ~SnapEqElement(g[Len(g)], sig, v)

\* An add that puts the snapshot in front of the others
GroupAddFront(g, sig, v) == << Snap(sig, v) >> \o g

\* SnapshotGroup::add
GroupAdd(g, sig, v) == Append(g, Snap(sig, v))

RECURSIVE Reverse(_)
Reverse(s) == IF s = << >> THEN << >> ELSE Append(Reverse(Tail(s)), Head(s))

\* A rollback that goes from the first snapshot to the last
RollbackOrderForward(g) == g

\* A restore that goes from the last snapshot to the first
RestoreOrderBackwards(g) == Reverse(g)

\* SnapshotGroup::rollback replays last to first, restore first to last.
RollbackOrder(g) == Reverse(g)
RestoreOrder(g) == g

VARIABLES
    data,           \* the fields' live values
    mDirection,     \* Direction, "Indeterminate" until first assigned
    mCallbacks,     \* key -> sequence of PolyFun, in container order
    mDependencies,  \* (source, destination) -> number of entries
    mUndos, mRedos, \* stacks of SnapshotGroup (top is the last element)
    mToVisit, mVisited, mToErase,
    mToVisitBuckets,\* bucket count of mToVisit, from its first key on
    pc,             \* "idle" or "update" (inside _update's while loop)
    op,             \* the operation in progress, or the last one finished
    todo,           \* snapshots rollback/restore still has to replay
    ret,            \* what the operation returns (read when pc = "idle")
    log,            \* callbacks invoked by the current cascade, in order
    start,          \* the key the current cascade started from
    nMut,           \* number of set/call operations performed
    prevOp,         \* observation: the operation before op
    cleared,        \* observation: the last set/call emptied a non-empty mRedos
    outcome,        \* observation: what the last step returned at once, if it
                    \* did: "false" (undo/redo) or "existing" (a dependency)
    strayed,        \* observation: a key outside the aggregate of a DataManager
                    \* that the DataManager handed to its StaticDataManager
    erased,         \* observation: the last erase(key) that was watched, and
                    \* the entries the key had then
    nesting,        \* how many sets made by callbacks are in progress, one
                    \* inside the other
    notified,       \* the keys whose callbacks the last cascade that returned
                    \* invoked, where the return is watched
    trail,          \* observation, made where the return of an operation is
                    \* trailed: the sets, then undos, then redos that have
                    \* returned since Init, the fields as the operation
                    \* before the last left them and as they were before the
                    \* last redo
    grp,            \* a SnapshotGroup used on its own: its snapshots (mData),
                    \* the observer of the replay in progress or last made
                    \* (f) and what the observer has been given (consumed)
    hist,           \* observation: sets, then undos, then redos since Init
    co,             \* observation: set(x); set(y, coalesce); undo()
    same            \* observation: set(x, a); set(x, b, coalesce); undo();
                    \* redo() from the empty history

vars == << data, mDirection, mCallbacks, mDependencies, mUndos, mRedos,
           mToVisit, mVisited, mToErase, mToVisitBuckets, pc, op, todo, ret,
           log, start, nMut, prevOp, cleared, outcome, strayed, erased,
           grp, nesting, notified, trail, hist, co, same >>

manager == << mDirection, mCallbacks, mDependencies, mUndos, mRedos >>
traversal == << mToVisit, mVisited, mToErase, mToVisitBuckets >>
observed == << prevOp, cleared, hist, co, same >>
history == << data, mDirection, mUndos, mRedos >>

\* No key: a cascade has not started yet.
NoSig == Sig("none", 0)

\* No erase has been watched.
NoErase == [registry |-> "none", key |-> NoSig, callbacks |-> 0, parents |-> {}]

RetVoid == [tag |-> "void", b |-> FALSE, v |-> 0]
RetBool(b) == [tag |-> "bool", b |-> b, v |-> 0]
RetVal(v) == [tag |-> "value", b |-> FALSE, v |-> v]

HistOff ==
    [phase |-> "off", sets |-> 0, undos |-> 0, redos |-> 0,
     mutated |-> {}, final |-> [f \in Fields |-> InitValue]]
CoOff == [stage |-> 0, x |-> NoSig, y |-> NoSig, bx |-> 0, by |-> 0]
SameOff == [stage |-> 0, x |-> NoSig, before |-> 0, b |-> 0]
TrailInit ==
    [phase |-> "sets", sets |-> << >>, undos |-> 0, redos |-> 0,
     last |-> [f \in Fields |-> InitValue],
     beforeRedo |-> [f \in Fields |-> InitValue]]

Init ==
    /\ data = [f \in Fields |-> InitValue]
    /\ mDirection = "Indeterminate"
    /\ mCallbacks = [k \in Keys |-> << >>]
    /\ mDependencies = [e \in Keys \X Keys |-> 0]
    /\ mUndos = << >>
    /\ mRedos = << >>
    /\ mToVisit = {}
    /\ mVisited = {}
    /\ mToErase = {}
    /\ mToVisitBuckets = BucketCount
    /\ pc = "idle"
    /\ op = "none"
    /\ todo = << >>
    /\ ret = RetVoid
    /\ log = << >>
    /\ start = NoSig
    /\ nMut = 0
    /\ prevOp = "none"
    /\ cleared = FALSE
    /\ outcome = "none"
    /\ strayed = NoSig
    /\ erased = NoErase
    /\ nesting = 0
    /\ notified = {}
    /\ trail = TrailInit
    /\ grp = [mData |-> << >>, f |-> "nullptr", consumed |-> << >>]
    /\ hist = [HistOff EXCEPT !.phase = "sets"]
    /\ co = CoOff
    /\ same = SameOff

\* ------------------------------------------------------------- registries
\* PolyFun: a callable and the type of the argument it was built for.
PolyFun(functor, type) == [functor |-> functor, type |-> type]

Functors == {"f"}

\* fmt that builds every callable for the type of the first field
fmt_fixed(functor, element) == PolyFun(functor, A.type)

\* PolyFun::fmt<El_t>(functor), made a PolyFun: the argument type is the type
\* of the element the callback is registered for.
fmt(functor, element) == PolyFun(functor, element.type)

\* PolyFun::operator()<El_t>: the callable runs when El_t is the type it was
\* built for, and the assertion fails otherwise.
PolyFunCall(fun, type) == IF type = fun.type THEN "called" ELSE "assert"

\* The value a key's element holds: an aggregate holds its members' values.
ValueOf(sig) ==
    IF sig \in Aggregates
    THEN [i \in 1..Len(Members(sig)) |-> data[Members(sig)[i]]]
    ELSE data[sig]

InsertAt(seq, i, x) == SubSeq(seq, 1, i - 1) \o << x >> \o SubSeq(seq, i, Len(seq))

RECURSIVE NumCallbacksOf(_)
NumCallbacksOf(keys) ==
    IF keys = {} THEN 0
    ELSE LET k == CHOOSE x \in keys : TRUE
         IN Len(mCallbacks[k]) + NumCallbacksOf(keys \ {k})

NumCallbacks == NumCallbacksOf(Keys)

\* mDependencies.equal_range(sig), each entry's ->second
Dependants(sig) == {d \in Keys : mDependencies[<< sig, d >>] > 0}

Edges == {e \in Keys \X Keys : mDependencies[e] > 0}

\* register_callback: unordered_multimap::insert places the entry somewhere
\* among the entries of the same key; where is up to the container.
register_callback(element, functor) ==
    /\ pc = "idle"
    /\ \E i \in 1..(Len(mCallbacks[element]) + 1) :
         mCallbacks' = [mCallbacks EXCEPT
                          ![element] = InsertAt(@, i, fmt(functor, element))]
    /\ outcome' = "none"
    /\ UNCHANGED << history, mDependencies, traversal,
                    pc, op, todo, ret, log, start, nMut, observed, strayed, erased, grp, nesting, notified, trail >>

\* An erase that takes one entry of the key, as erase(iterator) does
erase_first(callbacks, element) ==
    [callbacks EXCEPT ![element] = IF @ = << >> THEN @ ELSE Tail(@)]

\* unordered_multimap::erase(key) on the callbacks: every entry of the key goes.
erase(callbacks, element) == [callbacks EXCEPT ![element] = << >>]

\* An erase of callbacks that also empties the redo stack
erase_callbacks_clearing(element) ==
    /\ pc = "idle"
    /\ mCallbacks' = erase(mCallbacks, element)
    /\ mRedos' = << >>
    /\ outcome' = "none"
    /\ UNCHANGED << data, mDirection, mUndos, mDependencies, traversal,
                    pc, op, todo, ret, log, start, nMut, observed >>

\* mCallbacks.erase(element): erases every entry of the key.
erase_callbacks(element) ==
    /\ pc = "idle"
    /\ mCallbacks' = erase(mCallbacks, element)
    /\ outcome' = "none"
    /\ UNCHANGED << history, mDependencies, traversal,
                    pc, op, todo, ret, log, start, nMut, observed >>

\* remove_callback(element)
remove_callback(element) == erase_callbacks(element) /\ UNCHANGED << strayed, erased, grp, nesting, notified, trail >>

\* remove_callback(element), watched
remove_callback_watched(element) ==
    /\ erase_callbacks(element)
    /\ erased' = [registry |-> "callbacks", key |-> element,
                  callbacks |-> Len(mCallbacks[element]), parents |-> {}]
    /\ UNCHANGED << strayed, grp, nesting, notified, trail >>

\* A look-up that finds nothing
FindDependencyNever(source, destination) == {}

\* The loop of register_dependency over mDependencies.equal_range(source): the
\* entries whose destination is the one asked for; the first of them is
\* returned.
FindDependency(source, destination) ==
    {d \in Dependants(source) : SigEq(d, destination)}

\* An entry of mDependencies, as an iterator points to it: the pair and its
\* place among the entries of the pair.
Entry(source, destination, n) == [source |-> source, destination |-> destination, n |-> n]

\* What register_dependency returns: an entry it found, or the one it inserts.
register_dependency_return(source, destination) ==
    IF FindDependency(source, destination) # {}
    THEN UNION {{Entry(source, d, n) : n \in 1..mDependencies[<< source, d >>]} :
                   d \in FindDependency(source, destination)}
    ELSE {Entry(source, destination, mDependencies[<< source, destination >>] + 1)}

\* register_dependency: returns the existing entry when the pair is already
\* there, inserts it otherwise.
register_dependency(source, destination) ==
    /\ pc = "idle"
    /\ mDependencies' =
         IF FindDependency(source, destination) # {}
         THEN mDependencies
         ELSE [mDependencies EXCEPT ![<< source, destination >>] = @ + 1]
    /\ outcome' =
         IF FindDependency(source, destination) # {} THEN "existing" ELSE "none"
    /\ UNCHANGED << history, mCallbacks, traversal,
                    pc, op, todo, ret, log, start, nMut, observed, strayed, erased, grp, nesting, notified, trail >>

\* An erase that takes the entries the key is the destination of
erase_destination(dependencies, element) ==
    [e \in Keys \X Keys |-> IF e[2] = element THEN 0 ELSE dependencies[e]]

\* unordered_multimap::erase(key) on the dependencies: every entry whose key,
\* the source, is the element goes.
erase_source(dependencies, element) ==
    [e \in Keys \X Keys |-> IF e[1] = element THEN 0 ELSE dependencies[e]]

\* mDependencies.erase(element): erases every entry whose source is the key.
erase_dependencies(element) ==
    /\ pc = "idle"
    /\ mDependencies' = erase_source(mDependencies, element)
    /\ outcome' = "none"
    /\ UNCHANGED << history, mCallbacks, traversal,
                    pc, op, todo, ret, log, start, nMut, observed >>

\* remove_dependency(element)
remove_dependency(element) == erase_dependencies(element) /\ UNCHANGED << strayed, erased, grp, nesting, notified, trail >>

\* remove_dependency(element), watched
remove_dependency_watched(element) ==
    /\ erase_dependencies(element)
    /\ erased' = [registry |-> "dependencies", key |-> element,
                  callbacks |-> 0, parents |-> Dependants(element)]
    /\ UNCHANGED << strayed, grp, nesting, notified, trail >>

\* ---------------------------------------------------------------- cascade
\* All orders in which a range-for may go through an unordered_set.
Orders(S) ==
    {o \in [1..Cardinality(S) -> S] : \A i, j \in 1..Cardinality(S) : i # j => o[i] # o[j]}

\* The keys of S that mCallbacks has entries for: the first loop of _update
\* invokes something for these only, so their order is the order that shows.
WithCallbacks(S) == {k \in S : mCallbacks[k] # << >>}

\* _callback(sig): sig.invoke(f) for every entry of mCallbacks.equal_range(sig),
\* in container order; each invocation is logged with the value it is given
\* and with what PolyFun's type check made of it.
_callback(sig) ==
    [i \in 1..Len(mCallbacks[sig]) |->
        [sig |-> sig, idx |-> i, fun |-> mCallbacks[sig][i], arg |-> ValueOf(sig),
         outcome |-> PolyFunCall(mCallbacks[sig][i], sig.type)]]

RECURSIVE Callbacks(_)
Callbacks(order) ==
    IF order = << >> THEN << >> ELSE _callback(Head(order)) \o Callbacks(Tail(order))

\* _find_next without the look-up in mVisited
_find_next_unchecked(sig, visited) == Dependants(sig)

\* _find_next with the look-up in mVisited turned round
_find_next_visited(sig, visited) == {d \in Dependants(sig) : d \in visited}

\* _find_next that goes from a key to the keys it is a dependant of
_find_next_sources(sig, visited) ==
    {d \in Keys : mDependencies[<< d, sig >>] > 0 /\ d \notin visited}

\* _find_next(sig): the dependants of sig that are put in mToVisit, namely those
\* mVisited does not hold.
_find_next(sig, visited) == {d \in Dependants(sig) : d \notin visited}

FindNextAll(keys, visited) == UNION {_find_next(k, visited) : k \in keys}

\* The loop `for (el : mToVisit) _find_next(el)` inserts into the set it goes
\* through.  Looped(P, X): the keys of P the loop reaches, starting from X,
\* when it reaches the keys of P that are inserted on the way.
RECURSIVE Looped(_, _, _)
Looped(P, X, visited) ==
    LET X2 == X \cup (P \cap FindNextAll(X, visited))
    IN IF X2 = X THEN X ELSE Looped(P, X2, visited)

\* mToVisit.insert: the table grows when it holds more keys than buckets (a
\* maximal load factor of 1), and growing it rehashes every key.
RECURSIVE Rehash(_, _)
Rehash(buckets, size) ==
    IF size <= buckets THEN buckets ELSE Rehash(2 * buckets + 1, size)

\* The keys the loop can have gone through while the iterators stay valid.
\* The set links a new key at the head of its list or at the front of a bucket
\* in use, so the key lies ahead of the loop only when a key the set held at
\* the loop's beginning still does: what the last key of the list inserts is
\* not reached.
LoopPrefixes(frontier, visited) ==
    {P \in SUBSET Looped(Keys, frontier, visited) :
        /\ P \cap frontier # {}
        /\ \E last \in frontier :
             LET Q == P \ {last}
             IN Looped(Q, Q \cap frontier, visited) = Q}

\* The loop when no insertion rehashes the set: it goes through every key the
\* set held at its beginning.
LoopsInPlace(frontier, visited) ==
    {P \in LoopPrefixes(frontier, visited) : frontier \subseteq P}

\* The loop when an insertion rehashes the set, which happens once the keys of
\* some prefix have put more keys in the set than it has buckets: the rehash
\* invalidates the iterator the loop holds, and the keys the loop goes through
\* afterwards are whichever the rebuilt table links behind that iterator.
LoopsRehashed(frontier, visited, buckets) ==
    LET rehashing == {P0 \in LoopPrefixes(frontier, visited) :
                        Cardinality(frontier \cup FindNextAll(P0, visited)) > buckets}
    IN IF rehashing = {} THEN {}
       ELSE {P \in SUBSET Looped(Keys, frontier, visited) :
                /\ \E P0 \in rehashing : P0 \subseteq P
                /\ Looped(P, P \cap frontier, visited) = P}

\* The sets of keys the second loop of one round can go through.
FindNextLoops(frontier, visited, buckets) ==
    LoopsInPlace(frontier, visited) \cup LoopsRehashed(frontier, visited, buckets)

\* _update(sig), up to the while loop
UpdateBegin(sig) ==
    /\ mToVisit' = mToVisit \cup {sig}
    /\ mToVisitBuckets' = Rehash(mToVisitBuckets, Cardinality(mToVisit \cup {sig}))
    /\ start' = sig
    /\ log' = << >>
    /\ pc' = "update"
    /\ UNCHANGED << mVisited, mToErase >>

\* One iteration of _update's while loop.
UpdateRound ==
    /\ pc = "update"
    /\ mToVisit # {}
    /\ LET visited == mVisited \cup mToVisit
       IN /\ mVisited' = visited
          /\ \E P \in FindNextLoops(mToVisit, visited, mToVisitBuckets) :
               LET held == mToVisit \cup FindNextAll(P, visited)
               IN /\ mToVisit' = held \ (mToErase \cup P)
                  /\ mToVisitBuckets' = Rehash(mToVisitBuckets, Cardinality(held))
    /\ \E order \in Orders(WithCallbacks(mToVisit)) :
         log' = log \o Callbacks(order)
    /\ mToErase' = {}
    /\ UNCHANGED << data, manager, pc, op, todo, ret, start, nMut, observed, outcome, strayed, erased, grp, nesting, notified, trail >>

\* ------------------------------------------------------------ observations
\* hist follows a run made of sets, then undos, then redos, from Init.
HistSet(element, after) ==
    IF hist.phase = "sets"
    THEN [hist EXCEPT !.sets = @ + 1, !.mutated = @ \cup {element}, !.final = after]
    ELSE HistOff

HistUndo ==
    IF hist.phase = "sets" /\ hist.sets >= 1
    THEN [hist EXCEPT !.phase = "undos", !.undos = 1]
    ELSE IF hist.phase = "undos" /\ hist.undos < hist.sets
         THEN [hist EXCEPT !.undos = @ + 1]
         ELSE HistOff

HistRedo ==
    IF hist.phase = "undos" /\ hist.undos = hist.sets
    THEN [hist EXCEPT !.phase = "redos", !.redos = 1]
    ELSE IF hist.phase = "redos" /\ hist.redos < hist.sets
         THEN [hist EXCEPT !.redos = @ + 1]
         ELSE HistOff

\* co follows set(x, v); set(y, w, coalesce) with y # x; undo().
CoSet(element, groupWithLast) ==
    IF ~groupWithLast
    THEN [CoOff EXCEPT !.stage = 1, !.x = element, !.bx = data[element]]
    ELSE IF co.stage = 1 /\ element # co.x
         THEN [co EXCEPT !.stage = 2, !.y = element, !.by = data[element]]
         ELSE CoOff

CoUndo == IF co.stage = 2 THEN [co EXCEPT !.stage = 3] ELSE CoOff

\* same follows set(x, a) on an empty history; set(x, b, coalesce); undo();
\* redo().
SameSet(element, value, groupWithLast) ==
    IF ~groupWithLast /\ mUndos = << >> /\ mRedos = << >>
    THEN [SameOff EXCEPT !.stage = 1, !.x = element, !.before = data[element]]
    ELSE IF groupWithLast /\ same.stage = 1 /\ element = same.x
         THEN [same EXCEPT !.stage = 2, !.b = value]
         ELSE SameOff

SameUndo == IF same.stage = 2 THEN [same EXCEPT !.stage = 3] ELSE SameOff

SameRedo == IF same.stage = 3 THEN [same EXCEPT !.stage = 4] ELSE SameOff

\* ------------------------------------------------------ mutation and history
\* clear_redos that leaves the stack as it is
clear_redos_keep(redos) == redos

\* clear_redos(): pops until mRedos is empty
clear_redos(redos) == << >>

\* A first push that does not look at the top group
PushBeforeAlways(undos, element) == Push(undos, Group(element, data[element]))

\* A first push that is never made
PushBeforeNever(undos, element) == undos

\* The first push of set and call: the pre-mutation snapshot, unless the top
\* group already matches the element.
PushBefore(undos, element) ==
    IF Len(undos) = 0 \/ GroupNeqElement(Top(undos), element, data[element])
    THEN Push(undos, Group(element, data[element]))
    ELSE undos

\* A second push that always groups with the last
PushAfterGrouped(undos, element, value, groupWithLast) ==
    [undos EXCEPT ![Len(undos)] = GroupAdd(@, element, value)]

\* The second push of set: the post-mutation snapshot is added to the top
\* group when groupWithLast is set, and pushed as a new group otherwise.
PushAfter(undos, element, value, groupWithLast) ==
    IF groupWithLast
    THEN [undos EXCEPT ![Len(undos)] = GroupAdd(@, element, value)]
    ELSE Push(undos, Group(element, value))

\* An assignment that is put off until the cascade is over
AssignedLate(element, value) == data

\* element = value
Assigned(element, value) == [data EXCEPT ![element] = value]

\* set(element, value, groupWithLast)
set(element, value, groupWithLast) ==
    /\ pc = "idle"
    /\ mDirection' = "Forward"
    /\ mRedos' = clear_redos(mRedos)
    /\ mUndos' = PushAfter(PushBefore(mUndos, element), element, value, groupWithLast)
    /\ data' = Assigned(element, value)
    /\ UpdateBegin(element)
    /\ op' = "set"
    /\ prevOp' = op
    /\ todo' = << >>
    /\ ret' = RetVoid
    /\ nMut' = nMut + 1
    /\ cleared' = (Len(mRedos) # 0)
    /\ outcome' = "none"
    /\ hist' = HistSet(element, Assigned(element, value))
    /\ co' = CoSet(element, groupWithLast)
    /\ same' = SameSet(element, value, groupWithLast)
    /\ UNCHANGED << mCallbacks, mDependencies, strayed, erased, grp, nesting, notified, trail >>

\* A non-const method of the element: it changes the element and returns a
\* value (S::enlarge in the examples).
Methods == {"enlarge"}
MethodApply(method, v) == (v + 1) % (MaxValue + 1)
MethodResult(method, v) == MethodApply(method, v)

\* A call that leaves the direction as it finds it
call_unturned(element, method) ==
    /\ pc = "idle"
    /\ mDirection' = mDirection
    /\ mRedos' = clear_redos(mRedos)
    /\ mUndos' = Push(PushBefore(mUndos, element),
                      Group(element, MethodApply(method, data[element])))
    /\ data' = [data EXCEPT ![element] = MethodApply(method, @)]
    /\ UpdateBegin(element)
    /\ op' = "call"
    /\ prevOp' = op
    /\ todo' = << >>
    /\ ret' = RetVal(MethodResult(method, data[element]))
    /\ nMut' = nMut + 1
    /\ cleared' = (Len(mRedos) # 0)
    /\ outcome' = "none"
    /\ hist' = HistOff
    /\ co' = CoOff
    /\ same' = SameOff
    /\ UNCHANGED << mCallbacks, mDependencies, strayed, erased, grp, nesting, notified, trail >>

\* call(element, method, args...)
call(element, method) ==
    /\ pc = "idle"
    /\ mDirection' = "Forward"
    /\ mRedos' = clear_redos(mRedos)
    /\ mUndos' = Push(PushBefore(mUndos, element),
                      Group(element, MethodApply(method, data[element])))
    /\ data' = [data EXCEPT ![element] = MethodApply(method, @)]
    /\ UpdateBegin(element)
    /\ op' = "call"
    /\ prevOp' = op
    /\ todo' = << >>
    /\ ret' = RetVal(MethodResult(method, data[element]))
    /\ nMut' = nMut + 1
    /\ cleared' = (Len(mRedos) # 0)
    /\ outcome' = "none"
    /\ hist' = HistOff
    /\ co' = CoOff
    /\ same' = SameOff
    /\ UNCHANGED << mCallbacks, mDependencies, strayed, erased, grp, nesting, notified, trail >>

\* The value undo reads from mDirection: any Direction while it is unassigned.
ReadDirection ==
    IF mDirection = "Indeterminate" THEN {"Forward", "Backwards"} ELSE {mDirection}

\* undo() that assigns the direction before it looks at the stack
UndoEmptyTurns ==
    /\ pc = "idle"
    /\ Len(mUndos) = 0
    /\ mDirection' = "Backwards"
    /\ ret' = RetBool(FALSE)
    /\ op' = "undo"
    /\ prevOp' = op
    /\ hist' = HistUndo
    /\ co' = CoUndo
    /\ same' = SameUndo
    /\ outcome' = "false"
    /\ UNCHANGED << cleared, strayed, erased, grp, nesting, notified, trail >>
    /\ UNCHANGED << data, mCallbacks, mDependencies, mUndos, mRedos, traversal,
                    pc, todo, log, start, nMut >>

\* undo() on an empty undo stack
UndoEmpty ==
    /\ pc = "idle"
    /\ Len(mUndos) = 0
    /\ ret' = RetBool(FALSE)
    /\ op' = "undo"
    /\ prevOp' = op
    /\ hist' = HistUndo
    /\ co' = CoUndo
    /\ same' = SameUndo
    /\ outcome' = "false"
    /\ UNCHANGED << cleared, strayed, erased, grp, nesting, notified, trail >>
    /\ UNCHANGED << data, manager, traversal, pc, todo, log, start, nMut >>

\* A snapshot whose observer runs before the value is written back
RolledbackLate(snap) == data

\* Snapshot::rollback(): the captured value is written back to the element.
Rolledback(snap) == [data EXCEPT ![snap.sig] = snap.value]

\* Replays the first snapshot of a group and starts the observer's cascade.
ReplayFirst(order) ==
    /\ data' = Rolledback(Head(order))
    /\ UpdateBegin(Head(order).sig)
    /\ todo' = Tail(order)

\* An undo that pops whatever the direction is
PopSupersededAlways(undos, direction) ==
    IF Len(undos) > 1 THEN Pop(undos) ELSE undos

\* if (mDirection == Direction::Forward && mUndos.size() > 1) mUndos.pop();
PopSuperseded(undos, direction) ==
    IF direction = "Forward" /\ Len(undos) > 1 THEN Pop(undos) ELSE undos

\* undo(), up to the first cascade of rollback
undo ==
    /\ pc = "idle"
    /\ Len(mUndos) # 0
    /\ mRedos' = Push(mRedos, Top(mUndos))
    /\ \E direction \in ReadDirection :
         LET undos == PopSuperseded(mUndos, direction)
         IN /\ mUndos' = undos
            /\ ReplayFirst(RollbackOrder(Top(undos)))
    /\ op' = "undo"
    /\ prevOp' = op
    /\ ret' = RetBool(TRUE)
    /\ hist' = HistUndo
    /\ co' = CoUndo
    /\ same' = SameUndo
    /\ outcome' = "none"
    /\ UNCHANGED << cleared, strayed, erased, grp, nesting, notified, trail >>
    /\ UNCHANGED << mDirection, mCallbacks, mDependencies, nMut >>

\* redo() that assigns the direction before it looks at the stack
RedoEmptyTurns ==
    /\ pc = "idle"
    /\ Len(mRedos) = 0
    /\ mDirection' = "Forward"
    /\ ret' = RetBool(FALSE)
    /\ op' = "redo"
    /\ prevOp' = op
    /\ hist' = HistRedo
    /\ co' = CoOff
    /\ same' = SameRedo
    /\ outcome' = "false"
    /\ UNCHANGED << cleared, strayed, erased, grp, nesting, notified, trail >>
    /\ UNCHANGED << data, mCallbacks, mDependencies, mUndos, mRedos, traversal,
                    pc, todo, log, start, nMut >>

\* redo() on an empty redo stack
RedoEmpty ==
    /\ pc = "idle"
    /\ Len(mRedos) = 0
    /\ ret' = RetBool(FALSE)
    /\ op' = "redo"
    /\ prevOp' = op
    /\ hist' = HistRedo
    /\ co' = CoOff
    /\ same' = SameRedo
    /\ outcome' = "false"
    /\ UNCHANGED << cleared, strayed, erased, grp, nesting, notified, trail >>
    /\ UNCHANGED << data, manager, traversal, pc, todo, log, start, nMut >>

\* redo(), up to the first cascade of restore
redo ==
    /\ pc = "idle"
    /\ Len(mRedos) # 0
    /\ mUndos' = Push(mUndos, Top(mRedos))
    /\ ReplayFirst(RestoreOrder(Top(mRedos)))
    /\ op' = "redo"
    /\ prevOp' = op
    /\ ret' = RetBool(TRUE)
    /\ hist' = HistRedo
    /\ co' = CoOff
    /\ same' = SameRedo
    /\ outcome' = "none"
    /\ UNCHANGED << cleared, strayed, erased, grp, nesting, notified, trail >>
    /\ UNCHANGED << mDirection, mCallbacks, mDependencies, mRedos, nMut >>

\* _update's loop has ended inside rollback/restore: mVisited is cleared, the
\* observer returns and the group's next snapshot is replayed.
UpdateNext ==
    /\ pc = "update"
    /\ mToVisit = {}
    /\ todo # << >>
    /\ data' = Rolledback(Head(todo))
    /\ mToVisit' = {Head(todo).sig}
    /\ mVisited' = {}
    /\ start' = Head(todo).sig
    /\ log' = << >>
    /\ todo' = Tail(todo)
    /\ UNCHANGED << manager, mToErase, mToVisitBuckets, pc, op, ret, nMut,
                    observed, outcome, strayed, erased, grp, nesting, notified, trail >>

\* An undo that leaves the direction of a redo behind
DirectionAfterForward(operation) == "Forward"

\* The last assignment of undo and of redo: mDirection = Direction::Backwards,
\* mDirection = Direction::Forward.
DirectionAfter(operation) == IF operation = "undo" THEN "Backwards" ELSE "Forward"

\* A clear that leaves the keys in the set
clear_visited_kept(visited) == visited

\* mVisited.clear()
clear_visited(visited) == {}

\* _update's loop has ended and nothing is left to replay: mVisited is cleared
\* and the operation finishes.
UpdateEnd ==
    /\ pc = "update"
    /\ mToVisit = {}
    /\ todo = << >>
    /\ mVisited' = clear_visited(mVisited)
    /\ pc' = "idle"
    /\ log' = << >>
    /\ IF op = "undo"
       THEN /\ mUndos' = Pop(mUndos)
            /\ mDirection' = DirectionAfter(op)
            /\ UNCHANGED mRedos
       ELSE IF op = "redo"
            THEN /\ mRedos' = Pop(mRedos)
                 /\ mDirection' = DirectionAfter(op)
                 /\ UNCHANGED mUndos
            ELSE UNCHANGED << mUndos, mRedos, mDirection >>
    /\ UNCHANGED << data, mCallbacks, mDependencies, mToVisit, mToErase,
                    mToVisitBuckets, op, todo, ret, start, nMut, observed, outcome, strayed, erased, grp, nesting >>

UpdateReturn == UpdateEnd /\ UNCHANGED << notified, trail >>

\* The keys a cascade invoked callbacks of.
Notified(invoked) == {invoked[n].sig : n \in 1..Len(invoked)}

\* The return of _update, with the keys it notified kept for the next cascade
\* to be compared with.
UpdateReturnWatched == UpdateEnd /\ notified' = Notified(log) /\ UNCHANGED trail

\* trail when the operation op returns: a set lengthens the run of sets, an
\* undo that follows the sets or an undo counts as long as there are sets left
\* to undo, a redo that follows the undos or a redo counts as long as there
\* are undos left to redo, and anything else ends the run.
TrailPhase ==
    IF op = "set" /\ trail.phase = "sets"
    THEN [trail EXCEPT !.sets = Append(@, Snap(start, data[start]))]
    ELSE IF op = "undo" /\ trail.phase \in {"sets", "undos"}
                        /\ trail.undos < Len(trail.sets)
         THEN [trail EXCEPT !.phase = "undos", !.undos = @ + 1]
         ELSE IF op = "redo" /\ trail.phase \in {"undos", "redos"}
                             /\ trail.redos < trail.undos
              THEN [trail EXCEPT !.phase = "redos", !.redos = @ + 1]
              ELSE [trail EXCEPT !.phase = "off", !.sets = << >>,
                                 !.undos = 0, !.redos = 0]

TrailReturn ==
    [TrailPhase EXCEPT !.last = data,
                       !.beforeRedo = IF op = "redo" THEN trail.last ELSE @]

\* The return of _update to set, undo or redo, trailed.
UpdateReturnTrailed == UpdateEnd /\ trail' = TrailReturn /\ UNCHANGED notified

\* ------------------------------------------------------ re-entrant callbacks
\* A callback that mutates another field through the manager it is registered
\* with: [&](int v) { m.set(b, v); }.
ReentrantFunctors == {"set_b"}
ReentrantTarget == B

Reenters(k) == \E i \in 1..Len(mCallbacks[k]) : mCallbacks[k][i].functor \in ReentrantFunctors

\* The first loop of the round will invoke a callback that calls set.
Reentering == pc = "update" /\ \E k \in mToVisit : Reenters(k)

\* The first entry of the key that calls set, in container order.
FirstReentrant(k) ==
    CHOOSE i \in 1..Len(mCallbacks[k]) :
        /\ mCallbacks[k][i].functor \in ReentrantFunctors
        /\ \A j \in 1..(i - 1) : mCallbacks[k][j].functor \notin ReentrantFunctors

\* The first loop of a round, for (el : mToVisit) _callback(el), up to the
\* callback that calls set(b, v), and that set up to the while loop of its
\* _update: the keys the loop has been through are in mVisited and their
\* callbacks invoked, the target is assigned, recorded and put in mToVisit,
\* which still holds the keys of the round that was interrupted.  The loop
\* that follows is the first loop of the nested _update.  When the stack has
\* no room for the call the program is over.
Reenter ==
    /\ Reentering
    /\ \E order \in Orders(mToVisit) :
         \E n \in 1..Len(order) :
            /\ Reenters(order[n])
            /\ \A j \in 1..(n - 1) : ~Reenters(order[j])
            /\ log' = log \o Callbacks(SubSeq(order, 1, n - 1))
                          \o SubSeq(_callback(order[n]), 1, FirstReentrant(order[n]))
            /\ mVisited' = mVisited \cup {order[j] : j \in 1..n}
            /\ IF nesting = MaxNesting
               THEN /\ pc' = "overflow"
                    /\ UNCHANGED << data, mDirection, mUndos, mRedos, mToVisit,
                                    mToVisitBuckets, nesting, nMut >>
               ELSE /\ mDirection' = "Forward"
                    /\ mRedos' = clear_redos(mRedos)
                    /\ mUndos' = PushAfter(PushBefore(mUndos, ReentrantTarget),
                                           ReentrantTarget, ValueOf(order[n]), FALSE)
                    /\ data' = Assigned(ReentrantTarget, ValueOf(order[n]))
                    /\ mToVisit' = mToVisit \cup {ReentrantTarget}
                    /\ mToVisitBuckets' =
                         Rehash(mToVisitBuckets, Cardinality(mToVisit \cup {ReentrantTarget}))
                    /\ nesting' = nesting + 1
                    /\ nMut' = nMut + 1
                    /\ pc' = pc
    /\ hist' = HistOff
    /\ co' = CoOff
    /\ same' = SameOff
    /\ UNCHANGED << mCallbacks, mDependencies, mToErase, op, todo, ret, start,
                    prevOp, cleared, outcome, strayed, erased, grp, notified, trail >>

\* ------------------------------------------------------------- DataManager
\* DataManager<S>: the aggregate it owns (mData) and a StaticDataManager
\* (mManager).  Addresses and sizes are counted in fields.
mData == S1
SizeOf(type) == IF type = mData.type THEN Len(Members(mData)) ELSE 1

\* isValidMemory(element): the element lies within mData.
isValidMemory(element) ==
    /\ element.address >= mData.address
    /\ element.address + SizeOf(element.type) <= mData.address + SizeOf(mData.type)

\* assert(... && isValidMemory(element)) that fails: the program is aborted.
AssertFail ==
    /\ pc = "idle"
    /\ pc' = "aborted"
    /\ outcome' = "assert"
    /\ UNCHANGED << data, manager, traversal, op, todo, ret, log, start, nMut,
                    observed, strayed, erased, grp, nesting, notified, trail >>

\* The key the DataManager hands on, noted when it lies outside mData.
HandOn(element) ==
    strayed' = IF isValidMemory(element) THEN strayed ELSE element

DataManager_register_callback(element, functor) ==
    IF isValidMemory(element) THEN register_callback(element, functor) ELSE AssertFail

DataManager_remove_callback(element) ==
    erase_callbacks(element) /\ HandOn(element) /\ UNCHANGED << erased, grp, nesting, notified, trail >>

DataManager_register_dependency(child, parent) ==
    IF isValidMemory(child) /\ isValidMemory(parent)
    THEN register_dependency(child, parent)
    ELSE AssertFail

DataManager_remove_dependency(element) ==
    erase_dependencies(element) /\ HandOn(element) /\ UNCHANGED << erased, grp, nesting, notified, trail >>

DataManager_set(element, value, groupWithLast) ==
    IF isValidMemory(element) THEN set(element, value, groupWithLast) ELSE AssertFail

DataManager_call(element, method) ==
    IF isValidMemory(element) THEN call(element, method) ELSE AssertFail

DataManager_undo == UndoEmpty \/ undo

DataManager_redo == RedoEmpty \/ redo

\* ---------------------------------------------------------- SnapshotGroup
\* A SnapshotGroup used on its own, as the snapshot example does: snapshots
\* of fields are added, the fields are written to, and the group is rolled
\* back or restored, with an observer or without one.
Observers == {"nullptr", "consume"}

\* SnapshotGroup::add(element): mData.push_back(element)
SnapshotGroup_add(element) ==
    /\ pc = "idle"
    /\ grp' = [grp EXCEPT !.mData = GroupAdd(@, element, data[element])]
    /\ op' = "add"
    /\ UNCHANGED << data, manager, traversal, pc, todo, ret, log, start, nMut,
                    observed, outcome, strayed, erased, nesting, notified, trail >>

\* A write to a field by its owner (i = j = f = 0 in the example).
Write(element, value) ==
    /\ pc = "idle"
    /\ data' = [data EXCEPT ![element] = value]
    /\ op' = "write"
    /\ UNCHANGED << manager, traversal, pc, todo, ret, log, start, nMut,
                    observed, outcome, strayed, erased, grp, nesting, notified, trail >>

\* rollback(f) and restore(f), up to the loop: the order the loop goes in.
Replay(operation, order, f) ==
    /\ pc = "idle"
    /\ grp' = [grp EXCEPT !.f = f, !.consumed = << >>]
    /\ todo' = order
    /\ op' = operation
    /\ pc' = "replay"
    /\ UNCHANGED << data, manager, traversal, ret, log, start, nMut,
                    observed, outcome, strayed, erased, nesting, notified, trail >>

SnapshotGroup_rollback(f) == Replay("rollback", RollbackOrder(grp.mData), f)

SnapshotGroup_restore(f) == Replay("restore", RestoreOrder(grp.mData), f)

\* One iteration of the loop: it->rollback(); if (f) f(it->get_data_sig());
\* the observer is noted with the value it finds in the field.
ReplayNext ==
    /\ pc = "replay"
    /\ todo # << >>
    /\ data' = Rolledback(Head(todo))
    /\ grp' = IF grp.f = "nullptr" THEN grp
              ELSE [grp EXCEPT !.consumed =
                        Append(@, Snap(Head(todo).sig, data'[Head(todo).sig]))]
    /\ todo' = Tail(todo)
    /\ UNCHANGED << manager, traversal, pc, op, ret, log, start, nMut,
                    observed, outcome, strayed, erased, nesting, notified, trail >>

\* The loop has come to the end of the group.
ReplayReturn ==
    /\ pc = "replay"
    /\ todo = << >>
    /\ pc' = "idle"
    /\ UNCHANGED << data, manager, traversal, op, todo, ret, log, start, nMut,
                    observed, outcome, strayed, erased, grp, nesting, notified, trail >>

\* ------------------------------------------------------------ specifications
Cascade ==
    \/ UpdateRound
    \/ UpdateNext
    \/ UpdateReturn

\* Mutation and history on two fields, with empty registries.
NextHistory ==
    \/ \E element \in HistFields, value \in Values, groupWithLast \in BOOLEAN :
         nMut < MaxMutations /\ set(element, value, groupWithLast)
    \/ \E element \in HistFields, method \in Methods :
         nMut < MaxMutations /\ call(element, method)
    \/ UndoEmpty
    \/ undo
    \/ RedoEmpty
    \/ redo
    \/ Cascade

SpecHistory == Init /\ [][NextHistory]_vars

NumDeps == Cardinality(Edges)

\* The value the cascade specification sets fields to.
CascadeValues == {MaxValue}
\* The cascades of Spec start from A; the registries around it are arbitrary
\* over three fields.
CascadeStarts == {A}
CascadeFields == {A, B, C}

\* Registration and cascades on three fields, with a short history.
Next ==
    \/ \E element \in CascadeFields, functor \in Functors :
         NumCallbacks < MaxCallbacks /\ register_callback(element, functor)
    \/ \E element \in CascadeFields : remove_callback(element)
    \/ \E source \in CascadeFields, destination \in CascadeFields :
         NumDeps < MaxDeps /\ register_dependency(source, destination)
    \/ \E element \in CascadeFields : remove_dependency(element)
    \/ \E element \in CascadeStarts, value \in CascadeValues :
         nMut < MaxCascadeSets /\ set(element, value, FALSE)
    \/ UpdateRound
    \/ UpdateReturn

Spec == Init /\ [][Next]_vars

\* Cascades over a graph that fans out: A has the dependants B, C, D and E, and
\* B has the dependants F and G, so that the set of keys to visit grows while
\* a round's loop is half way through it.
FanOut == {<< A, B >>, << A, C >>, << A, D >>, << A, E >>, << B, F >>, << B, G >>}
\* The keys callbacks are registered on: one of each level below A.
FanOutObserved == {B, C, F}

NextFanOut ==
    \/ \E element \in FanOutObserved, functor \in Functors :
         NumCallbacks < MaxCallbacks /\ register_callback(element, functor)
    \/ \E element \in FanOutObserved : remove_callback(element)
    \/ \E e \in FanOut : register_dependency(e[1], e[2])
    \/ \E element \in Fields : remove_dependency(element)
    \/ \E element \in CascadeStarts, value \in CascadeValues :
         nMut < MaxCascadeSets /\ set(element, value, FALSE)
    \/ UpdateRound
    \/ UpdateReturn

SpecFanOut == Init /\ [][NextFanOut]_vars

\* Every operation that runs cascades, over graphs that grow from a
\* self-dependency of A and a cycle through A and B to the graph of
\* SpecFanOut around them: a dependency is registered once those before it in
\* LiveEdges are.  Callbacks do not steer the loop of _update and none is
\* registered.  set is called with groupWithLast, which makes the groups that
\* undo and redo replay snapshot by snapshot; call makes the groups of one
\* snapshot, as set without groupWithLast does.
LiveEdges ==
    << << A, A >>, << A, B >>, << B, A >>, << A, C >>,
       << A, D >>, << A, E >>, << B, F >>, << B, G >> >>

NextLive ==
    \/ \E i \in 1..Len(LiveEdges) :
         /\ \A j \in 1..(i - 1) : LiveEdges[j] \in Edges
         /\ register_dependency(LiveEdges[i][1], LiveEdges[i][2])
    \/ \E element \in Fields : remove_dependency(element)
    \/ \E element \in CascadeStarts, value \in CascadeValues :
         nMut < MaxCascadeSets /\ set(element, value, TRUE)
    \/ \E element \in CascadeStarts, method \in Methods :
         nMut < MaxCascadeSets /\ call(element, method)
    \/ undo
    \/ redo
    \/ Cascade

\* A running operation keeps running: the manager is synchronous, so the loop
\* of _update takes its next iteration, replays the next snapshot or returns.
LiveSpec == Init /\ [][NextLive]_vars /\ WF_vars(Cascade)

\* The whole manager on the aggregate S1 and its members A and B, as in the
\* example program: an observer on A and one on S1, S1 a dependant of A, and
\* every operation of the history on the members.
ManagedObserved == {A, S1}
ManagedEdges == {<< A, S1 >>}

NextManager ==
    \/ \E element \in ManagedObserved, functor \in Functors :
         mCallbacks[element] = << >> /\ register_callback(element, functor)
    \/ \E element \in ManagedObserved : remove_callback(element)
    \/ \E e \in ManagedEdges : register_dependency(e[1], e[2])
    \/ \E e \in ManagedEdges : remove_dependency(e[1])
    \/ \E element \in HistFields, value \in CascadeValues, groupWithLast \in BOOLEAN :
         nMut < MaxMutations /\ set(element, value, groupWithLast)
    \/ \E element \in HistFields, method \in Methods :
         nMut < MaxMutations /\ call(element, method)
    \/ UndoEmpty
    \/ undo
    \/ RedoEmpty
    \/ redo
    \/ Cascade

SpecManager == Init /\ [][NextManager]_vars

\* The registries over keys that share an address: the member A, the
\* aggregate S1 that starts where A does, and the member B.
KeyedKeys == {A, S1, B}

NextKeys ==
    \/ \E element \in KeyedKeys, functor \in Functors :
         NumCallbacks < MaxCallbacks /\ register_callback(element, functor)
    \/ \E element \in KeyedKeys : remove_callback(element)
    \/ \E source \in KeyedKeys, destination \in KeyedKeys :
         NumDeps < MaxDeps /\ register_dependency(source, destination)
    \/ \E element \in KeyedKeys : remove_dependency(element)
    \/ \E element \in CascadeStarts, value \in CascadeValues :
         nMut < MaxCascadeSets /\ set(element, value, FALSE)
    \/ UpdateRound
    \/ UpdateReturn

SpecKeys == Init /\ [][NextKeys]_vars

\* The aggregate among the dependants of its first member, in the graph of
\* SpecFanOut: A has the dependants B, S1, D and E, and B has F and G.
KeyedFanOut ==
    {<< A, B >>, << A, S1 >>, << A, D >>, << A, E >>, << B, F >>, << B, G >>}

NextKeysFanOut ==
    \/ \E functor \in Functors :
         NumCallbacks < MaxCallbacks /\ register_callback(S1, functor)
    \/ \E e \in KeyedFanOut : register_dependency(e[1], e[2])
    \/ \E element \in CascadeStarts, value \in CascadeValues :
         nMut < MaxCascadeSets /\ set(element, value, FALSE)
    \/ UpdateRound
    \/ UpdateReturn

SpecKeysFanOut == Init /\ [][NextKeysFanOut]_vars

\* A DataManager<S> used with its own members and with a field that is not
\* part of its aggregate (C, which lies behind the aggregate's last member).
WrappedKeys == {A, S1, C}
WrappedFields == {A, C}
WrappedEdges == {<< A, S1 >>, << A, C >>, << C, S1 >>}

NextWrapper ==
    \/ \E element \in WrappedKeys, functor \in Functors :
         mCallbacks[element] = << >> /\ DataManager_register_callback(element, functor)
    \/ \E element \in WrappedKeys : DataManager_remove_callback(element)
    \/ \E e \in WrappedEdges : DataManager_register_dependency(e[1], e[2])
    \/ \E element \in WrappedKeys : DataManager_remove_dependency(element)
    \/ \E element \in WrappedFields, value \in CascadeValues, groupWithLast \in BOOLEAN :
         nMut < MaxCascadeSets /\ DataManager_set(element, value, groupWithLast)
    \/ \E element \in WrappedFields, method \in Methods :
         nMut < MaxCascadeSets /\ DataManager_call(element, method)
    \/ DataManager_undo
    \/ DataManager_redo
    \/ Cascade

SpecWrapper == Init /\ [][NextWrapper]_vars

\* The registries as the example program uses them: callbacks and dependencies
\* are registered, fields are set, the callbacks and the dependencies of a
\* field are removed and the field is set again.
RegistryFields == {A, B}
RegistryEdges == {<< A, B >>, << B, A >>, << B, S1 >>}

NextRegistry ==
    \/ \E element \in RegistryFields, functor \in Functors :
         NumCallbacks < MaxCallbacks /\ register_callback(element, functor)
    \/ \E element \in RegistryFields : remove_callback_watched(element)
    \/ \E e \in RegistryEdges : register_dependency(e[1], e[2])
    \/ \E element \in RegistryFields : remove_dependency_watched(element)
    \/ \E element \in RegistryFields, value \in CascadeValues :
         nMut < MaxMutations /\ set(element, value, FALSE)
    \/ UpdateRound
    \/ UpdateReturn

SpecRegistry == Init /\ [][NextRegistry]_vars

\* A group of up to MaxSnapshots snapshots of two fields.
NextGroup ==
    \/ \E element \in HistFields :
         Len(grp.mData) < MaxSnapshots /\ SnapshotGroup_add(element)
    \/ \E element \in HistFields, value \in Values : Write(element, value)
    \/ \E f \in Observers : SnapshotGroup_rollback(f)
    \/ \E f \in Observers : SnapshotGroup_restore(f)
    \/ ReplayNext
    \/ ReplayReturn

SpecGroup == Init /\ [][NextGroup]_vars

\* A callback of A that sets B, next to callbacks that only look: C is a
\* dependant of A and of B, and nothing leads from B to A.
ReentrantObserved == {A, B, C}
ReentrantEdges == {<< A, C >>, << B, C >>}
FunctorsFor(element) ==
    IF element = A THEN Functors \cup ReentrantFunctors ELSE Functors

NextReentrant ==
    \/ \E element \in ReentrantObserved : \E functor \in FunctorsFor(element) :
         NumCallbacks < MaxCallbacks /\ register_callback(element, functor)
    \/ \E e \in ReentrantEdges : register_dependency(e[1], e[2])
    \/ \E element \in CascadeStarts, value \in CascadeValues :
         nMut < MaxCascadeSets /\ set(element, value, FALSE)
    \/ ~Reentering /\ UpdateRound
    \/ Reenter
    \/ UpdateReturn

SpecReentrant == Init /\ [][NextReentrant]_vars

\* Cascades one after the other on two fields that depend on each other.
CascadesFields == {A, B}
CascadesEdges == {<< A, B >>, << B, A >>}

NextCascades ==
    \/ \E element \in CascadesFields, functor \in Functors :
         NumCallbacks < MaxCallbacks /\ register_callback(element, functor)
    \/ \E e \in CascadesEdges : register_dependency(e[1], e[2])
    \/ \E element \in CascadesFields, value \in Values :
         nMut < MaxMutations /\ set(element, value, FALSE)
    \/ UpdateRound
    \/ UpdateReturnWatched

SpecCascades == Init /\ [][NextCascades]_vars

\* Several callbacks on one key: each key is given the callbacks of
\* OrderedFunctors one after the other, in that order.
OrderedFunctors == << "f", "g" >>

NextOrder ==
    \/ \E element \in {A, B, S1} : \E i \in 1..Len(OrderedFunctors) :
         /\ NumCallbacks < MaxCallbacks
         /\ Len(mCallbacks[element]) = i - 1
         /\ register_callback(element, OrderedFunctors[i])
    \/ \E e \in {<< A, B >>, << A, S1 >>} : register_dependency(e[1], e[2])
    \/ \E element \in CascadeStarts, value \in CascadeValues :
         nMut < MaxCascadeSets /\ set(element, value, FALSE)
    \/ UpdateRound
    \/ UpdateReturn

SpecOrder == Init /\ [][NextOrder]_vars

\* Sets that are not coalesced, and undos and redos that succeed, on two
\* fields with no callbacks: every group holds one snapshot.
NextTrail ==
    \/ \E element \in HistFields, value \in Values :
         nMut < MaxMutations /\ set(element, value, FALSE)
    \/ undo
    \/ redo
    \/ UpdateRound
    \/ UpdateReturnTrailed

SpecTrail == Init /\ [][NextTrail]_vars

\* ------------------------------------------------------------------ claims
\* The run so far is n sets from the empty history followed by n undos.
SetsThenUndos ==
    pc = "idle" /\ hist.phase = "undos" /\ hist.undos = hist.sets

\* The run so far is n sets, n undos and n redos.
SetsUndosRedos ==
    pc = "idle" /\ hist.phase = "redos" /\ hist.redos = hist.sets

\* C1: after n set calls from the empty history followed by n undo calls,
\* every field the sets mutated holds the value it had before the sequence.
C1_UndoRoundTrip ==
    SetsThenUndos => \A f \in hist.mutated : data[f] = InitValue

\* C2: after n set calls, n undo calls and n redo calls, every field the sets
\* mutated holds the value it had at the end of the set sequence.
C2_RedoRoundTrip ==
    SetsUndosRedos => \A f \in hist.mutated : data[f] = hist.final[f]

\* C3: after set(x, v); set(y, w, coalesce = true) on distinct fields, a single
\* undo() returns both x and y to the values they had before the two sets.
C3_CoalescedUndo ==
    (pc = "idle" /\ co.stage = 3) => data[co.x] = co.bx /\ data[co.y] = co.by

\* C4: right after a set or a call the redo stack is empty, and a redo()
\* issued then returns false and changes no field.
C4_RedoInvalidation ==
    [][(pc = "idle" /\ op \in {"set", "call"}) =>
          /\ mRedos = << >>
          /\ (op' = "redo" => ret' = RetBool(FALSE) /\ data' = data /\ pc' = "idle")]_vars

\* A redo() that failed right after a set which had discarded undone groups.
C4_Witness ==
    /\ pc = "idle"
    /\ op = "redo"
    /\ prevOp = "set"
    /\ cleared
    /\ ret = RetBool(FALSE)

\* ---------------------------------------------------------- cascade claims
\* The keys a cascade from the keys of S can reach through the registry.
RECURSIVE ReachFrom(_)
ReachFrom(S) ==
    LET S2 == S \cup UNION {Dependants(k) : k \in S}
    IN IF S2 = S THEN S ELSE ReachFrom(S2)

\* Dependency distance of k from the keys of level (d away from the start);
\* -1 when k is out of reach.
RECURSIVE DistFrom(_, _, _, _)
DistFrom(level, seen, k, d) ==
    IF k \in level THEN d
    ELSE LET further == UNION {Dependants(x) : x \in level} \ seen
         IN IF further = {} THEN -1 ELSE DistFrom(further, seen \cup further, k, d + 1)

Dist(s, k) == DistFrom({s}, {s}, k, 0)

\* How many times the current cascade has invoked the i-th callback of k.
Invoked(k, i) == Cardinality({n \in 1..Len(log) : log[n].sig = k /\ log[n].idx = i})

LogKeys == [n \in 1..Len(log) |-> log[n].sig]

\* The while loop of _update has just ended.
LoopExit == pc = "update" /\ mToVisit = {}

ChainABC == Edges = {<< A, B >>, << B, C >>}
CycleAB == Edges = {<< A, B >>, << B, A >>}
OneCallbackEach == \A k \in {A, B, C} : Len(mCallbacks[k]) = 1

\* C5: with the chain A -> B -> C registered and one callback on each key, a
\* set on A invokes the callbacks of A, B and C once each, in that order.
C5_ChainCascade ==
    (LoopExit /\ op = "set" /\ start = A /\ ChainABC /\ OneCallbackEach)
        => LogKeys = << A, B, C >>

\* The cascade of a set on A over the chain has ended, C's callback included.
C5_Witness ==
    /\ LoopExit
    /\ op = "set"
    /\ start = A
    /\ ChainABC
    /\ OneCallbackEach
    /\ Invoked(C, 1) = 1

\* C6: a cascade started at s invokes every callback of every key reachable
\* from s exactly once.
C6_CascadeComplete ==
    LoopExit => \A k \in ReachFrom({start}) :
                    \A i \in 1..Len(mCallbacks[k]) : Invoked(k, i) = 1

\* C7: with the cycle A -> B -> A registered, a set on A invokes no callback
\* of A or of B twice, and ends with every one of them invoked exactly once.
C7_CycleSafety ==
    (pc = "update" /\ op = "set" /\ start = A /\ CycleAB)
        => \A k \in {A, B} : \A i \in 1..Len(mCallbacks[k]) :
               /\ Invoked(k, i) <= 1
               /\ LoopExit => Invoked(k, i) = 1

\* The cascade of a set on A over the cycle has ended; A and B have callbacks.
C7_Witness ==
    /\ LoopExit
    /\ op = "set"
    /\ start = A
    /\ CycleAB
    /\ Len(mCallbacks[A]) >= 1
    /\ Len(mCallbacks[B]) >= 1
    /\ LogKeys # << >>

\* C8: in one cascade no callback of any key is invoked more than once.
C8_AtMostOnce ==
    \A m, n \in 1..Len(log) :
        (log[m].sig = log[n].sig /\ log[m].idx = log[n].idx) => m = n

\* C9: every cascade ends: the loop of _update reaches an empty set of keys to
\* visit and the operation that started the cascade returns.
C9_CascadeTerminates == (pc = "update") ~> (pc = "idle")

\* A cascade has come to its end over a self-dependency and a cycle, after its
\* loop rehashed the set of keys to visit twice.
C9_Witness ==
    /\ LoopExit
    /\ << start, start >> \in Edges
    /\ \E k \in Fields \ {start} :
         /\ << start, k >> \in Edges
         /\ start \in ReachFrom({k})
    /\ mToVisitBuckets > 2 * BucketCount + 1

\* C10: a callback on a key at distance d from the start is invoked only
\* after every callback of every key at distance d - 1 has been invoked.
C10_BreadthFirst ==
    \A n \in 1..Len(log) :
        \A k \in Keys :
            (Dist(start, log[n].sig) >= 1 /\ Dist(start, k) = Dist(start, log[n].sig) - 1)
                => \A i \in 1..Len(mCallbacks[k]) :
                       \E m \in 1..(n - 1) : log[m].sig = k /\ log[m].idx = i

\* ---------------------------------------------------------- manager claims
\* What a failed undo or redo must leave alone: the fields, both stacks, the
\* direction, both registries, and the callbacks (none invoked).
Untouched ==
    /\ pc' = "idle"
    /\ log' = log
    /\ UNCHANGED << data, mUndos, mRedos, mDirection, mCallbacks, mDependencies >>

\* C11: undo() on an empty undo stack returns false, leaves every field, both
\* stacks, the direction and both registries as they are, and invokes no
\* callback.
C11_UndoOnEmpty ==
    [][(/\ pc = "idle"
        /\ Len(mUndos) = 0
        /\ op' = "undo"
        /\ (outcome' = "false" \/ pc' = "update"))
          => (ret' = RetBool(FALSE) /\ Untouched)]_vars

\* An undo() has just failed in a manager that has observers, a dependency,
\* an assigned direction and a group to redo.
C11_Witness ==
    /\ pc = "idle"
    /\ op = "undo"
    /\ outcome = "false"
    /\ ret = RetBool(FALSE)
    /\ mUndos = << >>
    /\ mRedos # << >>
    /\ mDirection = "Backwards"
    /\ NumCallbacks > 0
    /\ Edges # {}

\* C12: redo() on an empty redo stack returns false, leaves every field, both
\* stacks, the direction and both registries as they are, and invokes no
\* callback.
C12_RedoOnEmpty ==
    [][(/\ pc = "idle"
        /\ Len(mRedos) = 0
        /\ op' = "redo"
        /\ (outcome' = "false" \/ pc' = "update"))
          => (ret' = RetBool(FALSE) /\ Untouched)]_vars

\* A redo() has just failed in a manager that has observers, a dependency,
\* groups to undo and a field away from its first value.
C12_Witness ==
    /\ pc = "idle"
    /\ op = "redo"
    /\ outcome = "false"
    /\ ret = RetBool(FALSE)
    /\ mRedos = << >>
    /\ mUndos # << >>
    /\ \E f \in HistFields : data[f] # InitValue
    /\ NumCallbacks > 0
    /\ Edges # {}

\* The value of the last snapshot of the top undo group: after a set, the
\* value the set was called with.
LastRecorded == Top(mUndos)[Len(Top(mUndos))].value

\* C13: during the cascade of set(field, v) the field holds v, every callback
\* registered on the field is invoked with v, and every callback on a
\* dependent key is given the value its key has after the assignment.
C13_SetNotifiesNewValue ==
    (pc = "update" /\ op = "set") =>
        /\ data[start] = LastRecorded
        /\ \A n \in 1..Len(log) :
             /\ log[n].arg = ValueOf(log[n].sig)
             /\ log[n].sig = start => log[n].arg = LastRecorded
             /\ (log[n].sig \in Aggregates /\ start = Members(log[n].sig)[1])
                    => log[n].arg[1] = LastRecorded
        /\ LoopExit => \A i \in 1..Len(mCallbacks[start]) : Invoked(start, i) = 1

\* The cascade of a set on A has ended: the callback of A was given the new
\* value, and the callback of S1 the aggregate with the new value in it.
C13_Witness ==
    /\ LoopExit
    /\ op = "set"
    /\ start = A
    /\ data[A] # InitValue
    /\ \E n \in 1..Len(log) : log[n].sig = A /\ log[n].arg = data[A]
    /\ \E n \in 1..Len(log) : log[n].sig = S1 /\ log[n].arg[1] = data[A]

\* C14: the registry never holds two entries for one (source, destination)
\* pair; a register_dependency for a pair that is there returns the entry that
\* is there and leaves the registry as it is.
C14_DependencyDeduplication ==
    [][/\ \A e \in Keys \X Keys : mDependencies'[e] <= 1
       /\ \A e \in Edges :
            register_dependency_return(e[1], e[2]) = {Entry(e[1], e[2], 1)}
       /\ outcome' = "existing" =>
            /\ mDependencies' = mDependencies
            /\ pc' = "idle"]_vars

\* A dependency was registered a second time, next to the pair in the other
\* direction: both pairs are there once.
C14_Witness ==
    /\ outcome = "existing"
    /\ \E e \in Edges :
         /\ e[1] # e[2]
         /\ mDependencies[e] = 1
         /\ mDependencies[<< e[2], e[1] >>] = 1

\* C15: every callable in the callback registry was built for the type of the
\* key it is stored under, and every invocation a cascade makes passes
\* PolyFun's type check: the assertion is never reached.
C15_TypeCheckNeverFails ==
    /\ \A k \in Keys : \A i \in 1..Len(mCallbacks[k]) : mCallbacks[k][i].type = k.type
    /\ \A n \in 1..Len(log) : log[n].outcome = "called"

\* An undo or a redo has invoked the callback of the int field and that of
\* the aggregate, each built for its own type.
C15_Witness ==
    /\ pc = "update"
    /\ op \in {"undo", "redo"}
    /\ \E n \in 1..Len(log) : log[n].sig = A /\ log[n].fun.type = "int"
    /\ \E n \in 1..Len(log) : log[n].sig = S1 /\ log[n].fun.type = "S"

\* C16: two keys are equal exactly when their addresses and their types are;
\* the keys of two fields are unequal also when the fields hold equal values,
\* a key built again from the same element is equal to the first, and the
\* registry keeps a pair apart from the pair that differs from it in the type
\* of one key only.
C16_KeyEquality ==
    [][/\ \A k1, k2 \in Keys :
            SigEq(k1, k2) <=> (k1.address = k2.address /\ k1.type = k2.type)
       /\ \A f, g \in Fields : (f # g /\ data[f] = data[g]) => ~SigEq(f, g)
       /\ \A k \in Keys : SigEq(Sig(k.type, k.address), k)
       /\ \A s, d \in KeyedKeys :
            register_dependency(s, d) =>
                /\ << s, d >> \in Edges'
                /\ outcome' = "existing" <=> << s, d >> \in Edges]_vars

\* B has the member A and the aggregate S1, which share an address, as its
\* dependants, each under its own key, while A and B hold equal values.
C16_Witness ==
    /\ << B, A >> \in Edges
    /\ << B, S1 >> \in Edges
    /\ A.address = S1.address
    /\ data[A] = data[B]

\* C17: the DataManager hands no field on to its StaticDataManager before it
\* has verified that the field lies within the aggregate it owns: no key
\* outside the aggregate reaches the StaticDataManager.
C17_WrapperBoundsCheck == strayed = NoSig

\* The condition under which set records the pre-mutation snapshot: the undo
\* stack is empty, or the last snapshot of its top group differs from the
\* element in identity or in value.
RecordsBefore(element) ==
    \/ mUndos = << >>
    \/ LET last == Top(mUndos)[Len(Top(mUndos))]
       IN last.sig # element \/ last.value # data[element]

\* C18: call(field, method) sets the direction to Forward, empties the redo
\* stack, pushes the pre-mutation snapshot under the condition of set, applies
\* the method, pushes a group with the post-mutation snapshot, runs one
\* cascade from the field and returns the method's result.
C18_CallProtocol ==
    [][/\ (pc = "idle" /\ pc' = "update" /\ op' = "call") =>
            \E element \in Fields, method \in Methods :
              /\ mDirection' = "Forward"
              /\ mRedos' = << >>
              /\ data' = [data EXCEPT ![element] = MethodApply(method, @)]
              /\ mUndos' = (IF RecordsBefore(element)
                            THEN mUndos \o << << Snap(element, data[element]) >> >>
                            ELSE mUndos) \o << << Snap(element, data'[element]) >> >>
              /\ mToVisit' = {element}
              /\ start' = element
              /\ todo' = << >>
              /\ ret' = RetVal(MethodResult(method, data[element]))
       /\ (pc = "update" /\ op = "call") =>
              /\ UNCHANGED << start, todo, ret, data, mUndos, mRedos, mDirection >>
              /\ pc' = "idle" <=> mToVisit = {}]_vars

\* The cascade of a call on A has ended: the call came after a set on A,
\* found its pre-mutation snapshot on top of the undo stack and pushed one
\* group, and the callback of A was invoked with the value the method left.
C18_Witness ==
    /\ LoopExit
    /\ op = "call"
    /\ prevOp = "set"
    /\ start = A
    /\ Len(mUndos) = 3
    /\ mDirection = "Forward"
    /\ ret = RetVal(data[A])
    /\ \E n \in 1..Len(log) : log[n].sig = A /\ log[n].arg = data[A]

\* C19: when a set, a call or a successful redo returns the direction is
\* Forward, when a successful undo returns it is Backwards, and a failed undo,
\* a failed redo and every registration and removal leave it as it was.
C19_DirectionFlag ==
    [][/\ (pc = "idle" /\ pc' = "update" /\ op' \in {"set", "call"}) =>
            mDirection' = "Forward"
       /\ (pc = "update" /\ pc' = "idle") =>
            mDirection' = (IF op = "undo" THEN "Backwards" ELSE "Forward")
       /\ (pc = "update" /\ pc' = "update" /\ op \in {"set", "call"}) =>
            mDirection' = "Forward"
       /\ (pc = "idle" /\ pc' = "idle") => mDirection' = mDirection]_vars

\* An undo that followed a redo has returned true: the direction went from
\* Forward to Backwards, back to Forward and to Backwards again.
C19_Witness ==
    /\ pc = "idle"
    /\ op = "undo"
    /\ prevOp = "redo"
    /\ ret = RetBool(TRUE)
    /\ outcome = "none"
    /\ mDirection = "Backwards"

\* The group an undo or a redo in progress replays, and the snapshot of it
\* whose cascade is running: rollback goes from the last snapshot to the
\* first, restore from the first to the last.
Processed == IF op = "undo" THEN Top(mUndos) ELSE Top(mRedos)
Replaying ==
    IF op = "undo"
    THEN Processed[Len(todo) + 1]
    ELSE Processed[Len(Processed) - Len(todo)]

\* During the cascade of a snapshot the field holds the snapshot's value, the
\* cascade started from the field, and callbacks are given restored values.
C20_Restored ==
    (pc = "update" /\ op \in {"undo", "redo"}) =>
        /\ start = Replaying.sig
        /\ data[start] = Replaying.value
        /\ \A n \in 1..Len(log) :
             /\ log[n].arg = ValueOf(log[n].sig)
             /\ log[n].sig = start => log[n].arg = Replaying.value
        /\ LoopExit => \A i \in 1..Len(mCallbacks[start]) : Invoked(start, i) = 1

\* An undo or a redo starts with the cascade of the first snapshot in its
\* order, goes on to the next snapshot when a cascade has ended, and returns
\* when the cascade of the last snapshot has.
C20_EachSnapshot ==
    /\ (pc = "idle" /\ pc' = "update" /\ op' \in {"undo", "redo"}) =>
          Len(todo') = Len(Processed') - 1
    /\ (pc = "update" /\ op \in {"undo", "redo"}) =>
          /\ UNCHANGED << op, mUndos, mRedos >> \/ pc' = "idle"
          /\ mToVisit # {} => UNCHANGED << todo, data, start >>
          /\ (mToVisit = {} /\ todo # << >>) =>
                (pc' = "update" /\ Len(todo') = Len(todo) - 1 /\ mToVisit' # {})
          /\ (mToVisit = {} /\ todo = << >>) => pc' = "idle"

\* C20: on a successful undo (redo), for each snapshot of the group that is
\* processed, the field is overwritten with the snapshot's value and then one
\* cascade is run from that field, so that callbacks observe the restored
\* value.
C20_ReplayPropagates == []C20_Restored /\ [][C20_EachSnapshot]_vars

\* An undo is in the cascade of the second snapshot it rolls back, which is
\* the first of a group of two, and the callback of the field has been given
\* that snapshot's value.
C20_Witness ==
    /\ pc = "update"
    /\ op = "undo"
    /\ Len(Processed) = 2
    /\ todo = << >>
    /\ Replaying = Processed[1]
    /\ Processed[1].value # Processed[2].value
    /\ \E n \in 1..Len(log) : log[n].sig = start /\ log[n].arg = Processed[1].value

\* --------------------------------------------------------- registry claims
\* A step that takes callbacks away from some key, or a watched
\* remove_callback.
CallbacksGo ==
    \/ \E k \in Keys : Len(mCallbacks'[k]) < Len(mCallbacks[k])
    \/ erased' # erased /\ erased'.registry = "callbacks"

\* Every invocation of the cascade in progress is of a callback the registry
\* holds, under the key it holds it.
InvokesRegistered ==
    \A n \in 1..Len(log) :
        /\ log[n].idx <= Len(mCallbacks[log[n].sig])
        /\ log[n].fun = mCallbacks[log[n].sig][log[n].idx]

\* C21: remove_callback(field) removes every callback registered on the key of
\* the field and leaves the callbacks of the other keys, the dependencies and
\* the history as they are; no later cascade invokes a callback of the key
\* until one is registered again.
C21_RemoveCallback ==
    /\ [][CallbacksGo =>
            /\ erased'.registry = "callbacks"
            /\ erased'.callbacks = Len(mCallbacks[erased'.key])
            /\ mCallbacks'[erased'.key] = << >>
            /\ \A j \in Keys \ {erased'.key} : mCallbacks'[j] = mCallbacks[j]
            /\ UNCHANGED << mDependencies, data, mDirection, mUndos, mRedos >>]_vars
    /\ [](pc = "update" => InvokesRegistered)
    /\ []((/\ pc = "update"
            /\ erased.registry = "callbacks"
            /\ mCallbacks[erased.key] = << >>) =>
                \A n \in 1..Len(log) : log[n].sig # erased.key)

\* The cascade of a set on a field has ended after the two callbacks of the
\* field were removed: none was invoked, the callback of a dependant was.
C21_Witness ==
    /\ LoopExit
    /\ op = "set"
    /\ erased.registry = "callbacks"
    /\ erased.key = start
    /\ erased.callbacks = 2
    /\ mCallbacks[start] = << >>
    /\ Len(mUndos) > 2
    /\ \E n \in 1..Len(log) : log[n].sig \in Dependants(start)

\* A step that takes dependencies away, or a watched remove_dependency.
DependenciesGo ==
    \/ \E e \in Keys \X Keys : mDependencies'[e] < mDependencies[e]
    \/ erased' # erased /\ erased'.registry = "dependencies"

\* C22: remove_dependency(child) removes every dependency whose child is the
\* key and leaves every other dependency, those the key is the parent of
\* included, as it is; a later mutation of the child does not propagate to a
\* former parent.
C22_RemoveDependency ==
    /\ [][DependenciesGo =>
            /\ erased'.registry = "dependencies"
            /\ erased'.parents = {d \in Keys : << erased'.key, d >> \in Edges}
            /\ \A e \in Keys \X Keys :
                 mDependencies'[e] = IF e[1] = erased'.key THEN 0 ELSE mDependencies[e]
            /\ UNCHANGED << mCallbacks, data, mDirection, mUndos, mRedos >>]_vars
    /\ [](pc = "update" => \A n \in 1..Len(log) : log[n].sig \in ReachFrom({start}))
    /\ []((/\ pc = "update"
            /\ erased.registry = "dependencies"
            /\ start = erased.key
            /\ Dependants(start) = {}) =>
                \A n \in 1..Len(log) : log[n].sig = start)

\* The cascade of a set on a field has ended after the dependencies of the
\* field were removed: the callback of the field was invoked, that of its
\* former parent was not, and the dependency the field is the parent of is
\* still there.
C22_Witness ==
    /\ LoopExit
    /\ op = "set"
    /\ erased.registry = "dependencies"
    /\ erased.key = start
    /\ Dependants(start) = {}
    /\ \E d \in erased.parents \ {start} :
         /\ mCallbacks[d] # << >>
         /\ << d, start >> \in Edges
    /\ log # << >>
    /\ \A n \in 1..Len(log) : log[n].sig = start

\* ---------------------------------------------------------- history claims
\* A step that is a set without groupWithLast.
SetAlone == pc = "idle" /\ pc' = "update" /\ op' = "set" /\ co'.stage = 1

RolledBackNext == Top(mUndos')[Len(todo') + 1]

\* C24: a successful undo pushes one group, a copy of the top of the undo
\* stack as it was, on the redo stack; it removes two groups from the undo
\* stack when the direction was Forward and the stack held more than one
\* group, and one otherwise; the group it rolls back is the last it removes.
C24_UndoStacks ==
    [][/\ (pc = "idle" /\ pc' = "update" /\ op' = "undo") =>
            /\ mRedos' = mRedos \o << Top(mUndos) >>
            /\ mUndos' = (IF mDirection = "Forward" /\ Len(mUndos) > 1
                          THEN SubSeq(mUndos, 1, Len(mUndos) - 1)
                          ELSE mUndos)
            /\ Len(todo') = Len(Top(mUndos')) - 1
            /\ start' = RolledBackNext.sig
            /\ data' = [data EXCEPT ![start'] = RolledBackNext.value]
       /\ (pc = "update" /\ pc' = "update" /\ op = "undo") =>
            /\ UNCHANGED << mUndos, mRedos >>
            /\ todo' # todo =>
                  /\ start' = RolledBackNext.sig
                  /\ data' = [data EXCEPT ![start'] = RolledBackNext.value]
       /\ (pc = "update" /\ pc' = "idle" /\ op = "undo") =>
            /\ todo = << >>
            /\ mUndos' = SubSeq(mUndos, 1, Len(mUndos) - 1)
            /\ mRedos' = mRedos]_vars

\* A second undo in a row has returned: the first, with the direction
\* Forward, took two groups of four, this one took one, and the redo stack
\* holds the two tops.
C24_Witness ==
    /\ pc = "idle"
    /\ op = "undo"
    /\ prevOp = "undo"
    /\ outcome = "none"
    /\ ret = RetBool(TRUE)
    /\ Len(mUndos) = 1
    /\ Len(mRedos) = 2
    /\ mDirection = "Backwards"

\* The snapshot of the restored group that a step of a redo applies: the one
\* before those still to do, counted from the group's front.
RestoredNext == Top(mRedos)[Len(Top(mRedos)) - Len(todo')]

\* C25: a successful redo removes the top group of the redo stack and no
\* other, pushes that group on the undo stack, and writes the values of the
\* group's snapshots to their fields from the first snapshot to the last.
C25_RedoStacks ==
    [][/\ (pc = "idle" /\ pc' = "update" /\ op' = "redo") =>
            /\ mUndos' = mUndos \o << Top(mRedos) >>
            /\ mRedos' = mRedos
            /\ Len(todo') = Len(Top(mRedos)) - 1
            /\ start' = Top(mRedos)[1].sig
            /\ data' = [data EXCEPT ![start'] = Top(mRedos)[1].value]
       /\ (pc = "update" /\ pc' = "update" /\ op = "redo") =>
            /\ UNCHANGED << mUndos, mRedos >>
            /\ todo' # todo =>
                  /\ Len(todo') = Len(todo) - 1
                  /\ start' = RestoredNext.sig
                  /\ data' = [data EXCEPT ![start'] = RestoredNext.value]
       /\ (pc = "update" /\ pc' = "idle" /\ op = "redo") =>
            /\ todo = << >>
            /\ mRedos' = SubSeq(mRedos, 1, Len(mRedos) - 1)
            /\ mUndos' = mUndos
            /\ Top(mUndos') = Top(mRedos)
            /\ data' = data]_vars

\* A redo of a group of two snapshots with different values has returned:
\* the group is on top of the undo stack, the redo stack is empty, and the
\* field holds the value of the second snapshot.
C25_Witness ==
    /\ pc = "idle"
    /\ op = "redo"
    /\ outcome = "none"
    /\ ret = RetBool(TRUE)
    /\ mRedos = << >>
    /\ Len(Top(mUndos)) = 2
    /\ Top(mUndos)[1].value # Top(mUndos)[2].value
    /\ Top(mUndos)[1].sig = Top(mUndos)[2].sig
    /\ data[Top(mUndos)[2].sig] = Top(mUndos)[2].value

\* ----------------------------------------------------------- group claims
\* The fields a group holds snapshots of, and the first and the last snapshot
\* it holds of a field.
SnapshotsOf(g, field) == {i \in 1..Len(g) : g[i].sig = field}
FieldsOf(g) == {g[i].sig : i \in 1..Len(g)}
FirstOf(g, field) == g[CHOOSE i \in SnapshotsOf(g, field) : \A j \in SnapshotsOf(g, field) : i <= j]
LastOf(g, field) == g[CHOOSE i \in SnapshotsOf(g, field) : \A j \in SnapshotsOf(g, field) : i >= j]

\* C26: rollback applies the snapshots of a group from the last to the first
\* and restore from the first to the last; the observer, when there is one,
\* is invoked once for each snapshot, after the snapshot is applied; so a
\* rollback leaves a field with the value of the first snapshot the group
\* holds of it, and a restore with the value of the last.
C26_ReplayOrder ==
    op \in {"rollback", "restore"} =>
        /\ Len(grp.consumed) =
             IF grp.f = "nullptr" THEN 0 ELSE Len(grp.mData) - Len(todo)
        /\ \A i \in 1..Len(grp.consumed) :
             grp.consumed[i] = IF op = "rollback"
                               THEN grp.mData[Len(grp.mData) + 1 - i]
                               ELSE grp.mData[i]
        /\ pc = "idle" =>
             \A field \in FieldsOf(grp.mData) :
                 data[field] = IF op = "rollback"
                               THEN FirstOf(grp.mData, field).value
                               ELSE LastOf(grp.mData, field).value

\* A group of three snapshots, the first and the last of one field with
\* different values, has been rolled back with an observer: the observer was
\* invoked three times and the field holds the first value.
C26_Witness ==
    /\ pc = "idle"
    /\ op = "rollback"
    /\ grp.f = "consume"
    /\ Len(grp.mData) = 3
    /\ Len(grp.consumed) = 3
    /\ grp.mData[1].sig = grp.mData[3].sig
    /\ grp.mData[1].sig # grp.mData[2].sig
    /\ grp.mData[1].value # grp.mData[3].value
    /\ data[grp.mData[1].sig] = grp.mData[1].value

RoundLooped(P) ==
    /\ P \in FindNextLoops(mToVisit, mVisited \cup mToVisit, mToVisitBuckets)
    /\ mToVisit' = (mToVisit \cup FindNextAll(P, mVisited \cup mToVisit)) \ P

\* The keys a round whose second loop went through P added to mToVisit.
RoundAdded(P) == FindNextAll(P, mVisited \cup mToVisit) \ mToVisit

\* C28: a key that is added to mToVisit while the dependants of the keys of a
\* round are looked up is not put in mToErase in that round: it is in mToVisit
\* when the round ends, and the callbacks of a key are invoked in the round
\* that removes it.
C28_ParentsWait ==
    [][(pc = "update" /\ mToVisit # {}) =>
          \A P \in SUBSET Keys :
              RoundLooped(P) =>
                  /\ RoundAdded(P) \subseteq mToVisit'
                  /\ \A k \in P : \A i \in 1..Len(mCallbacks[k]) :
                       Cardinality({n \in 1..Len(log') : log'[n].sig = k /\ log'[n].idx = i})
                           = Invoked(k, i) + 1]_vars

\* C29: when a callback registered on A calls set on another field B during
\* the cascade that set(A) started, the nested cascade from B runs to its end
\* (no further set begins inside it and the program does not run out of
\* stack), the outer set(A) comes to the end of its cascade, and then every
\* callback of every key reachable from A has been invoked exactly once.
C29_ReentrantMutation ==
    /\ nesting <= 1
    /\ pc # "overflow"
    /\ (LoopExit /\ op = "set" /\ start = A) =>
          \A k \in ReachFrom({A}) :
              \A i \in 1..Len(mCallbacks[k]) : Invoked(k, i) = 1

\* C30: no traversal state persists.  Whenever no operation is in progress
\* mToVisit (the frontier), mVisited and mToErase (the consumed keys) are
\* empty; within a cascade mVisited holds no key with callbacks that this
\* cascade has not notified; and so every round notifies each key the cascade
\* has reached, whether or not the cascade before notified it.
TraversalEmpty == mToVisit = {} /\ mVisited = {} /\ mToErase = {}

C30_NoTraversalStatePersists ==
    /\ [](pc = "idle" => TraversalEmpty)
    /\ [](pc = "update" => WithCallbacks(mVisited) \subseteq Notified(log))
    /\ [][(pc = "update" /\ mToVisit # {}) =>
            \A k \in mToVisit : \A i \in 1..Len(mCallbacks[k]) :
                Cardinality({n \in 1..Len(log') : log'[n].sig = k /\ log'[n].idx = i})
                    = Invoked(k, i) + 1]_vars

\* The second cascade is over and has notified again a key, other than the
\* one it started from, that the first cascade notified.
C30_Witness ==
    /\ LoopExit
    /\ nMut = 2
    /\ \E k \in notified \cap Notified(log) : k # start

\* C31: when several callbacks are registered on one key, a cascade invokes
\* them in the order in which they were registered: of two callbacks of a key
\* that one pass of _callback invokes one after the other, the first was
\* registered before the second.
Registered(functor) == CHOOSE i \in 1..Len(OrderedFunctors) : OrderedFunctors[i] = functor

C31_RegistrationOrder ==
    \A n \in 1..(Len(log) - 1) :
        (log[n].sig = log[n + 1].sig /\ log[n].idx < log[n + 1].idx) =>
            Registered(log[n].fun.functor) < Registered(log[n + 1].fun.functor)

\* C32: undo inverts redo.  When a redo has succeeded and the undo that comes
\* right after it has returned, every field has the value it had before the
\* redo.
C32_UndoInvertsRedo ==
    (pc = "idle" /\ op = "undo" /\ prevOp = "redo") =>
        \A f \in Fields : data[f] = trail.beforeRedo[f]

\* C33: step-wise redo.  After n sets with pairwise distinct values on one
\* field, k undos (k <= n) and then j redos (1 <= j <= k), the field has the
\* value it had after n - k + j of the sets.
OneFieldDistinct ==
    /\ \A i \in 1..Len(trail.sets) : trail.sets[i].sig = trail.sets[1].sig
    /\ \A i, j \in 1..Len(trail.sets) :
         i # j => trail.sets[i].value # trail.sets[j].value

C33_StepwiseRedo ==
    (pc = "idle" /\ trail.phase = "redos" /\ OneFieldDistinct) =>
        data[trail.sets[1].sig] =
            trail.sets[Len(trail.sets) - trail.undos + trail.redos].value

\* C34: the top of the history matches the live data.  Whenever no operation
\* is in progress, the direction is Forward and the undo stack is not empty,
\* the last snapshot of the top undo group has the identity of a field and
\* the value the field has now.
LastSnapshot(g) == g[Len(g)]

C34_TopMatchesLive ==
    (pc = "idle" /\ mDirection = "Forward" /\ mUndos # << >>) =>
        /\ LastSnapshot(Top(mUndos)).sig \in Fields
        /\ LastSnapshot(Top(mUndos)).value = data[LastSnapshot(Top(mUndos)).sig]

\* A redo has restored a coalesced group, whose snapshots hold different
\* values, and returned.
C34_Witness ==
    /\ pc = "idle"
    /\ op = "redo"
    /\ ret = RetBool(TRUE)
    /\ mDirection = "Forward"
    /\ Len(Top(mUndos)) > 1
    /\ Top(mUndos)[1].value # LastSnapshot(Top(mUndos)).value

\* C35: no spurious notification.  A cascade started at s invokes callbacks of
\* keys reachable from s through registered dependencies only: no callback of
\* a key s is reachable from but that is not reachable from s, and none of a
\* key unrelated to s, is invoked.
C35_NoSpuriousNotification ==
    pc = "update" =>
        \A k \in Keys \ ReachFrom({start}) :
            \A i \in 1..Len(mCallbacks[k]) : Invoked(k, i) = 0

\* The cascade of a set has ended: it invoked the callback of a dependant of
\* the start, and a key with a callback that the start is a dependant of, and
\* that is out of the start's reach, was left alone.
C35_Witness ==
    /\ LoopExit
    /\ op = "set"
    /\ \E d \in Dependants(start) \ {start} : Invoked(d, 1) = 1
    /\ \E k \in Keys \ ReachFrom({start}) :
         /\ start \in Dependants(k)
         /\ mCallbacks[k] # << >>

\* C36: same address, different type.  The field A and the aggregate S1 that
\* starts at A's address have distinct keys; a cascade started by mutating A
\* invokes a callback of S1 only if dependencies are registered that lead from
\* A to S1, and invokes none of them twice.
C36_SameAddressOtherType ==
    /\ A.address = S1.address
    /\ ~SigEq(A, S1)
    /\ (pc = "update" /\ start = A) =>
          \A i \in 1..Len(mCallbacks[S1]) :
              /\ Invoked(S1, i) >= 1 => S1 \in ReachFrom({A})
              /\ Invoked(S1, i) <= 1

\* C37: registration is history-neutral.  A step of register_callback,
\* remove_callback, register_dependency or remove_dependency - a step that
\* changes a registry, or on which register_dependency returns an entry it
\* found - leaves every field value, both history stacks and the direction
\* as they are, invokes no callback and starts no cascade.
RegistryStep ==
    \/ mCallbacks' # mCallbacks
    \/ mDependencies' # mDependencies
    \/ outcome' = "existing"

C37_RegistrationNeutral ==
    [][RegistryStep =>
          /\ UNCHANGED << data, mUndos, mRedos, mDirection >>
          /\ log' = log
          /\ pc = "idle" /\ pc' = "idle"
          /\ UNCHANGED << mToVisit, mVisited, mToErase >>]_vars

\* register_dependency has returned the entry it found, with groups on both
\* history stacks and a callback registered.
C37_Witness ==
    /\ outcome = "existing"
    /\ mUndos # << >>
    /\ mRedos # << >>
    /\ mDirection = "Backwards"
    /\ NumCallbacks > 0

\* C38: no stack underflow.  While a set or a call is in progress, after its
\* pushes, the undo stack holds a group (the one top().add is applied to);
\* while an undo is in progress, after its conditional extra pop, the undo
\* stack still holds the group that is rolled back and popped at the end, and
\* the redo stack the group that was pushed; while a redo is in progress the
\* redo stack holds the group that is restored and popped at the end, and the
\* undo stack the group that was pushed.
C38_NoUnderflow ==
    /\ (pc = "update" /\ op \in {"set", "call"}) => Len(mUndos) >= 1
    /\ (pc = "update" /\ op = "undo") => (Len(mUndos) >= 1 /\ Len(mRedos) >= 1)
    /\ (pc = "update" /\ op = "redo") => (Len(mRedos) >= 1 /\ Len(mUndos) >= 1)

\* An undo is in progress after its extra pop: one group is left on the undo
\* stack, and it is not the group that was pushed on the redo stack.
C38_Witness ==
    /\ pc = "update"
    /\ op = "undo"
    /\ mDirection = "Forward"
    /\ Len(mUndos) = 1
    /\ Top(mRedos) # Top(mUndos)

\* C39: the direction is defined before it is read.  The direction has no
\* value until an operation assigns one - it has none as long as no set and
\* no call has been made - and whenever the undo stack holds a group, which is
\* when undo reads the direction, it has been assigned.
C39_DirectionDefined ==
    /\ nMut = 0 => mDirection = "Indeterminate"
    /\ mUndos # << >> => mDirection \in {"Forward", "Backwards"}

\* The first operation on the manager, a call, has returned: the undo stack
\* holds its groups and the direction is Forward.
C39_Witness ==
    /\ pc = "idle"
    /\ op = "call"
    /\ prevOp = "none"
    /\ nMut = 1
    /\ mUndos # << >>
    /\ mDirection = "Forward"
====
